---- MODULE Spec2Model ----
(***************************************************************************)
(* Tunnel / session lifecycle of lick_vnc_launcher.py (LickVncLauncher).   *)
(*                                                                         *)
(* The main thread runs start(): configuration, validation, discovery, the *)
(* auto-start batch, the audio relay, the command loop and exit_app.  Each *)
(* start_vnc_session starts a thread running launch_vncviewer; the threads *)
(* interleave with the main thread on vnc_processes.  ssh, the viewer and  *)
(* the audio player are OS processes: what they do (exit at once, bind the *)
(* local port, hang) is chosen by the environment.  The output of the      *)
(* remote vncstatus command is a sequence of lines of characters, parsed  *)
(* as get_vnc_sessions parses it.                                          *)
(*                                                                         *)
(* The port probe is modelled for the listening-socket strategies (ss,     *)
(* lsof, netstat.exe): a port is in use when an external process or a      *)
(* running ssh of this program listens on it.  An established tunnel does  *)
(* not die by itself.                                                      *)
(***************************************************************************)
EXTENDS Integers, Sequences, FiniteSets, TLC

\* ---------------------------------------------------------------- bounds
MaxDisplay == 2      \* most desktops the remote host reports (displays 1..MaxDisplay)
MaxCmds    == 2      \* most commands typed at the menu before q
MaxFaults  == 1      \* most events of the environment off the normal course in one run (ssh exiting
                     \* at once or never binding, kill or terminate raising, a viewer or the player
                     \* failing to start, the user closing a viewer window, other programs taking
                     \* or freeing local ports); kill raising again in a later call of
                     \* exit_app is the same event
MaxPending == 1      \* most launch threads still running when the main thread goes on

\* ------------------------------------------------------ program constants
LOCAL_PORT_START == 5901    \* self.LOCAL_PORT_START
SOUND_PORT       == 9798    \* sound_port in start_soundplay
PortTries        == 100     \* range(0,100) in open_ssh_tunnel
Checks           == 50      \* checks = 50 in open_ssh_tunnel
MaxDesktop       == 6       \* desktop < 6 in prompt_menu

\* session_name='soundplay' of the audio relay's tunnel
SOUNDPLAY == "soundplay"

\* the display ids the remote host can report, as the strings vncstatus prints
DisplayStr == <<"1", "2", "3", "4", "5", "6">>

\* int(d) for the display strings of the model: the numerals parse, any other
\* string raises ValueError
IsInt(d) == \E i \in 1..Len(DisplayStr) : DisplayStr[i] = d

\* The configurations tried: vncviewer set or not, or guessed on a Mac ("open"
\* with the prefix vnc://, lines 786-787), sound disabled or not,
\* 'local_port_start' absent (LOCAL_PORT_START stays) or set to the audio port,
\* and the port-probing tools installed (one, or none: how_check_local_port
\* then leaves check_cmd None).
Configs ==
  {[vncviewer |-> vv, vncprefix |-> "", nosound |-> ns, lps |-> LOCAL_PORT_START,
    installed |-> {"ss"}] : vv \in {"vncviewer", "None"}, ns \in BOOLEAN}
  \cup {[vncviewer |-> "open", vncprefix |-> "vnc://", nosound |-> TRUE,
          lps |-> LOCAL_PORT_START, installed |-> {"ss"}]}
  \cup {[vncviewer |-> "vncviewer", vncprefix |-> "", nosound |-> FALSE,
          lps |-> SOUND_PORT, installed |-> {"ss"}]}
  \cup {[vncviewer |-> "vncviewer", vncprefix |-> "", nosound |-> FALSE,
          lps |-> LOCAL_PORT_START, installed |-> {}]}

\* ------------------------------------------------- how_check_local_port
\* the tools tried, in the order of line 727
Tools == <<"ss", "lsof", "netstat.exe", "ps">>

\* the values of check_cmd that line 720 accepts
ValidTools == {"ps", "ss", "lsof", "netstat.exe"}

\* what the configuration or --check may hold: nothing ("None"), a tool of
\* the list, or something else
CheckValues == ValidTools \cup {"None", "netstat"}

\* for tst_cmd in (...): the first tool of Tools that `which` finds
FirstInstalled(inst) ==
  Tools[CHOOSE i \in 1..Len(Tools) :
          Tools[i] \in inst /\ \A j \in 1..(i - 1) : Tools[j] \notin inst]

\* how_check_local_port that does not ask `which` about the override
HowCheckLocalPortNoWhich(cfg, arg, inst) ==
  LET c == IF cfg = "None" THEN arg ELSE cfg
  IN IF c \in ValidTools THEN c
     ELSE IF \E i \in 1..Len(Tools) : Tools[i] \in inst
       THEN FirstInstalled(inst)
       ELSE c

\* self.check_cmd after how_check_local_port: cfg is config['check_cmd'], arg
\* is args.check, inst the tools `which` finds.  The configured value stands
\* when there is one, else the one of the command line (lines 715-718); it is
\* kept when it is a tool of the list and is installed (lines 720-723), else
\* the first installed tool of Tools is taken (lines 727-731), else nothing
\* is changed.
HowCheckLocalPort(cfg, arg, inst) ==
  LET c == IF cfg = "None" THEN arg ELSE cfg
  IN IF c \in ValidTools /\ c \in inst THEN c
     ELSE IF \E i \in 1..Len(Tools) : Tools[i] \in inst
       THEN FirstInstalled(inst)
       ELSE c

\* ------------------------------------------------------ launch_vncviewer
Digit == <<"0", "1", "2", "3", "4", "5", "6", "7", "8", "9">>

\* the decimal digits of n >= 0
RECURSIVE Decimal(_)
Decimal(n) ==
  IF n < 10 THEN Digit[n + 1] ELSE Decimal(n \div 10) \o Digit[(n % 10) + 1]

\* f'{port:4d}': the digits, right-aligned in a field of four characters
Format4d(n) ==
  (IF n < 10 THEN "   " ELSE IF n < 100 THEN "  " ELSE IF n < 1000 THEN " " ELSE "")
    \o Decimal(n)

\* the address with one colon for every viewer command
ViewerAddressOneColon(vncviewercmd, prefix, vncserver, port) ==
  prefix \o vncserver \o ":" \o Format4d(port)

\* the last argument of the viewer command (lines 829-832)
ViewerAddress(vncviewercmd, prefix, vncserver, port) ==
  IF vncviewercmd = "open"
    THEN prefix \o vncserver \o ":" \o Format4d(port)
    ELSE prefix \o vncserver \o "::" \o Format4d(port)

\* ------------------------------------------------------ get_vnc_sessions
\* A line of output is a sequence of characters; str.strip, str.split and the
\* comparison with 'Usage' work on the characters.
RECURSIVE Join(_)
Join(cs) == IF cs = <<>> THEN "" ELSE Head(cs) \o Join(Tail(cs))

RECURSIVE LStrip(_)
LStrip(cs) == IF cs # <<>> /\ Head(cs) = " " THEN LStrip(Tail(cs)) ELSE cs

RECURSIVE RStrip(_)
RStrip(cs) ==
  IF cs # <<>> /\ cs[Len(cs)] = " " THEN RStrip(SubSeq(cs, 1, Len(cs) - 1)) ELSE cs

StripNot(cs) == cs

\* s.strip()
Strip(cs) == RStrip(LStrip(cs))

\* ln.split('-'): the fields between the hyphens, at least one
RECURSIVE Split(_)
Split(cs) ==
  LET hy == {i \in 1..Len(cs) : cs[i] = "-"}
  IN IF hy = {} THEN <<cs>>
     ELSE LET h == CHOOSE i \in hy : \A j \in hy : i <= j
          IN <<SubSeq(cs, 1, h - 1)>> \o Split(SubSeq(cs, h + 1, Len(cs)))

\* the loop over the lines (lines 1150-1161): acc holds the sessions so far.
\* ln[0] of an empty line and fields[1] of a line without a hyphen raise
\* IndexError; a first field 'Usage' ends the loop.
RECURSIVE ParseLines(_, _)
ParseLines(lns, acc) ==
  IF lns = <<>> THEN [raised |-> FALSE, sessions |-> acc]
  ELSE LET ln == Head(lns)
       IN IF ln = <<>> THEN [raised |-> TRUE, sessions |-> acc]
          ELSE IF ln[1] = "#" THEN ParseLines(Tail(lns), acc)
          ELSE LET fields  == Split(ln)
                   display == Join(Strip(fields[1]))
               IN IF display = "Usage" THEN [raised |-> FALSE, sessions |-> acc]
                  ELSE IF Len(fields) < 2 THEN [raised |-> TRUE, sessions |-> acc]
                  ELSE ParseLines(Tail(lns),
                         Append(acc, [name    |-> Join(Strip(ln)),
                                      display |-> display,
                                      desktop |-> Join(Strip(fields[2]))]))

\* get_vnc_sessions when do_ssh_cmd gave the lines d; no line at all, or one
\* empty line, is the empty string (if data: is false)
GetVncSessions(d) ==
  IF d = <<>> \/ d = << <<>> >> THEN [raised |-> FALSE, sessions |-> <<>>]
  ELSE ParseLines(d, <<>>)

\* The outputs of vncstatus tried.  SessionLine(k) is "k - K k - x".
SessionLine(k) ==
  <<DisplayStr[k], " ", "-", " ", "K", " ", DisplayStr[k], " ", "-", " ", "x">>

CommentLine == <<"#", " ", "c", "-", "d">>

UsageLine == <<"U", "s", "a", "g", "e", " ", "-", " ", "v">>

\* a session line whose display is not a number
BadDisplayLine == <<"x", " ", "-", " ", "K", " ", "x">>

GoodOutput(n) == [k \in 1..n |-> SessionLine(k)]

DiscoveryOutputs ==
  {GoodOutput(n) : n \in 0..MaxDisplay}
  \cup {<<SessionLine(1), CommentLine, SessionLine(2)>>,
         <<UsageLine>>,
         <<SessionLine(1), UsageLine, SessionLine(2)>>,
         <<BadDisplayLine, SessionLine(1)>>,
         <<SessionLine(1), <<>>, SessionLine(2)>>}

VARIABLES
  pc,               \* where the main thread is
  ctx,              \* who called exit_app: "start", "fatal", "atexit"
  exit,             \* self.exit
  atexit_registered,\* atexit.register(self.exit_app) has run
  atexit_ran,       \* the interpreter has called the atexit hook
  exit_status,      \* process exit status (-1 while running)
  vncviewer,        \* self.vncviewer: "vncviewer", "open" or "None"
  vncprefix,        \* self.vncprefix
  nosound,          \* args.nosound or config nosound
  connection_valid, \* self.connection_valid
  quit,             \* the local quit of prompt_menu: TRUE once q was typed
  check_cmd,        \* self.check_cmd: "ss" (a listening-socket tool was found) or "None"
  config_check_cmd, \* config['check_cmd'] ("None" when absent)
  args_check,       \* args.check ("None" when --check is not given)
  installed,        \* the tools of Tools that `which` finds
  data,             \* the output of vncstatus as get_vnc_sessions got it: a sequence of lines
  sessions_found,   \* self.sessions_found: sequence of [name, display, desktop]
  batch_i,          \* index of the for loop over sessions_found in start()
  ports_in_use,     \* self.ports_in_use: sequence of [port, name, proc], insertion order
  local_port,       \* self.local_port, the allocation cursor
  procs,            \* every ssh process spawned: [name, port, state, listening, kills, result]
  ext,              \* which local ports other programs listen on
  vnc_threads,      \* self.vnc_threads: [port, st, vid]
  viewers,          \* every viewer process spawned: [port, state, terms, addr]
  vnc_processes,    \* self.vnc_processes: sequence of viewer ids
  sound,            \* self.sound: 0 (None) or an index into sounds
  sounds,           \* every soundplay object made: [live, terms]
  stage,            \* position in the body of exit_app
  td_log,           \* teardown events of the current exit_app call
  td_runs,          \* how many times the body of exit_app was entered
  exit_calls,       \* how many times exit_app was called
  returned,         \* <<name, port>> of every successful open_ssh_tunnel
  cmds,             \* commands typed at the menu so far (0 again once the menu is left)
  faults            \* failures injected so far

vars == <<pc, ctx, exit, atexit_registered, atexit_ran, exit_status, vncviewer,
          vncprefix, nosound, connection_valid, quit, check_cmd, config_check_cmd,
          args_check, installed, data, sessions_found, batch_i,
          ports_in_use, local_port, procs, ext, vnc_threads, viewers,
          vnc_processes, sound, sounds, stage, td_log, td_runs, exit_calls,
          returned, cmds, faults>>

\* -------------------------------------------------------- dict helpers
\* ports_in_use is a Python dict: keys unique, insertion order kept.
Keys(t) == {t[i].port : i \in 1..Len(t)}

Entry(t, p) == t[CHOOSE i \in 1..Len(t) : t[i].port = p]

\* d[p] = e : replaces the value of an existing key in place, else appends
Put(t, e) ==
  IF e.port \in Keys(t)
    THEN [i \in 1..Len(t) |-> IF t[i].port = e.port THEN e ELSE t[i]]
    ELSE Append(t, e)

PopKeeps(t, p) == t

\* d.pop(p)
Pop(t, p) == SelectSeq(t, LAMBDA e : e.port # p)

\* ------------------------------------------------------ the port probe
\* The ports other programs listen on: none, the first two of the default
\* range, every port but the first of the default range, or every port.
ExtPatterns == {"none", "low", "high", "all"}

ExtOccupied(p) ==
  \/ ext = "all"
  \/ ext = "low" /\ p \in {LOCAL_PORT_START, LOCAL_PORT_START + 1}
  \/ ext = "high" /\ p # LOCAL_PORT_START

\* the local ports the running ssh processes of ps listen on
OwnPorts(ps) ==
  {ps[i].port : i \in {j \in 1..Len(ps) : ps[j].state = "running" /\ ps[j].listening}}

\* is_local_port_in_use(port) with the ssh processes ps: a line of the
\* listening-socket listing matches ":port"
IsLocalPortInUse(ps, p) == ExtOccupied(p) \/ p \in OwnPorts(ps)

\* What a call of is_local_port_in_use(p) does.  With check_cmd none of the
\* four tools no branch of lines 750-757 assigns cmd, and line 759 reads it:
\* UnboundLocalError.
Probe(ps, p) ==
  IF check_cmd = "None" THEN "UnboundLocalError"
  ELSE IF IsLocalPortInUse(ps, p) THEN "in_use" ELSE "free"

\* ------------------------------------------------------ open_ssh_tunnel
\* What the spawned ssh does: exits before the first poll(), binds the local
\* port before the first or the last probe, or stays alive without binding
\* (ssh goes on running when its forward cannot bind: no ExitOnForwardFailure).
SpawnOutcomes == {"exited_now", "bind_first", "bind_last", "hang"}

\* ssh failing although the port was free for it counts as a failure of the
\* environment; not binding a port that is taken does not
SpawnFault(oc, taken) == oc = "exited_now" \/ (oc = "hang" /\ ~taken)

\* the least element of a non-empty set of integers
Min(S) == CHOOSE x \in S : \A y \in S : x <= y

\* the loop without the self.local_port += 1 of line 642
FirstFreeNoAdvance(c, n) ==
  LET own  == OwnPorts(procs)
      free == {p \in c..(c + n - 1) : ~(ExtOccupied(p) \/ p \in own)}
  IN IF free = {} THEN [port |-> 0, cursor |-> c + n]
     ELSE [port |-> Min(free), cursor |-> Min(free)]

\* for i in range(0,100): the loop probes c, c+1, ... and stops at the first
\* port the probe reports free; after n probes without one, no port (0).  The
\* cursor ends one past the last port probed.
FirstFree(c, n) ==
  LET own  == OwnPorts(procs)
      free == {p \in c..(c + n - 1) : ~(ExtOccupied(p) \/ p \in own)}
  IN IF free = {} THEN [port |-> 0, cursor |-> c + n]
     ELSE [port |-> Min(free), cursor |-> Min(free) + 1]

\* the loop with the test checks > 1: the last probe is never made
PollLoopShort(checks, activeFrom) ==
  LET hits == {k \in 1..(checks - 1) : activeFrom # 0 /\ k >= activeFrom}
  IN IF hits = {} THEN 0 ELSE checks - (Min(hits) - 1)

\* while checks > 0: probe number k (1, 2, ...) ends the loop when it finds the
\* port active, which it is from probe number activeFrom on (0: never); each
\* other probe takes one from checks.  The value of checks when the loop ends.
PollLoop(checks, activeFrom) ==
  LET hits == {k \in 1..checks : activeFrom # 0 /\ k >= activeFrom}
  IN IF hits = {} THEN 0 ELSE checks - (Min(hits) - 1)

\* open_ssh_tunnel with the lines 694-695 moved before the poll and the probes
OpenSshTunnelRegistersFirst(name, pref, oc) ==
  LET a == IF pref = 0 THEN FirstFree(local_port, PortTries)
                       ELSE [port |-> pref, cursor |-> local_port]
  IN IF Probe(procs, local_port) = "UnboundLocalError"
     THEN \* the first probe raises: in the allocation loop, before anything is
          \* spawned, or with a preferred port in the polling loop, after Popen
          IF pref = 0
          THEN [possible |-> TRUE, spawned |-> FALSE, fault |-> FALSE, raised |-> TRUE,
                ret |-> 0, cursor |-> local_port, table |-> ports_in_use, procs |-> procs]
          ELSE LET taken == IsLocalPortInUse(procs, pref)
                   binds == oc \in {"bind_first", "bind_last"}
               IN [possible |-> ~(binds /\ taken), spawned |-> TRUE,
                   fault |-> SpawnFault(oc, taken), raised |-> TRUE, ret |-> 0,
                   cursor |-> local_port, table |-> ports_in_use,
                   procs |-> Append(procs,
                     [name |-> name, port |-> pref,
                      state |-> IF oc = "exited_now" THEN "exited" ELSE "running",
                      listening |-> binds,
                      result |-> IF oc = "exited_now" THEN "exited" ELSE "probe_error",
                      kills |-> 0])]
     ELSE IF a.port = 0
     THEN [possible |-> TRUE, spawned |-> FALSE, fault |-> FALSE, raised |-> FALSE, ret |-> 0,
           cursor |-> LOCAL_PORT_START, table |-> ports_in_use, procs |-> procs]
     ELSE
       LET taken  == IsLocalPortInUse(procs, a.port)
           binds  == oc \in {"bind_first", "bind_last"}
           from   == IF taken \/ oc = "bind_first" THEN 1
                     ELSE IF oc = "bind_last" THEN Checks ELSE 0
           left   == PollLoop(Checks, from)
           result == IF oc = "exited_now" THEN "exited"
                     ELSE IF left = 0 THEN "timeout" ELSE "registered"
           state  == IF oc = "exited_now" THEN "exited"
                     ELSE "running"
           proc   == [name |-> name, port |-> a.port, state |-> state,
                      listening |-> binds, result |-> result,
                      kills |-> 0]
           id     == Len(procs) + 1
       IN [possible |-> ~(binds /\ taken), spawned |-> TRUE,
           fault |-> SpawnFault(oc, taken),
           raised |-> result # "registered",
           ret |-> IF result = "registered" THEN a.port ELSE 0,
           cursor |-> a.cursor,
           table |-> Put(ports_in_use, [port |-> a.port, name |-> name, proc |-> id]),
           procs |-> Append(procs, proc)]

\* open_ssh_tunnel(..., remote_port, local_port=pref, session_name=name); pref 0
\* is None.  ret 0 is the return value False.
OpenSshTunnel(name, pref, oc) ==
  LET a == IF pref = 0 THEN FirstFree(local_port, PortTries)
                       ELSE [port |-> pref, cursor |-> local_port]
  IN IF Probe(procs, local_port) = "UnboundLocalError"
     THEN \* the first probe raises: in the allocation loop, before anything is
          \* spawned, or with a preferred port in the polling loop, after Popen
          IF pref = 0
          THEN [possible |-> TRUE, spawned |-> FALSE, fault |-> FALSE, raised |-> TRUE,
                ret |-> 0, cursor |-> local_port, table |-> ports_in_use, procs |-> procs]
          ELSE LET taken == IsLocalPortInUse(procs, pref)
                   binds == oc \in {"bind_first", "bind_last"}
               IN [possible |-> ~(binds /\ taken), spawned |-> TRUE,
                   fault |-> SpawnFault(oc, taken), raised |-> TRUE, ret |-> 0,
                   cursor |-> local_port, table |-> ports_in_use,
                   procs |-> Append(procs,
                     [name |-> name, port |-> pref,
                      state |-> IF oc = "exited_now" THEN "exited" ELSE "running",
                      listening |-> binds,
                      result |-> IF oc = "exited_now" THEN "exited" ELSE "probe_error",
                      kills |-> 0])]
     ELSE IF a.port = 0
     THEN [possible |-> TRUE, spawned |-> FALSE, fault |-> FALSE, raised |-> FALSE, ret |-> 0,
           cursor |-> LOCAL_PORT_START, table |-> ports_in_use, procs |-> procs]
     ELSE
       LET taken  == IsLocalPortInUse(procs, a.port)
           binds  == oc \in {"bind_first", "bind_last"}
           from   == IF taken \/ oc = "bind_first" THEN 1
                     ELSE IF oc = "bind_last" THEN Checks ELSE 0
           left   == PollLoop(Checks, from)
           result == IF oc = "exited_now" THEN "exited"
                     ELSE IF left = 0 THEN "timeout" ELSE "registered"
           state  == IF oc = "exited_now" THEN "exited"
                     ELSE "running"
           proc   == [name |-> name, port |-> a.port, state |-> state,
                      listening |-> binds, result |-> result,
                      kills |-> 0]
           id     == Len(procs) + 1
       IN [possible |-> ~(binds /\ taken), spawned |-> TRUE,
           fault |-> SpawnFault(oc, taken),
           raised |-> result # "registered",
           ret |-> IF result = "registered" THEN a.port ELSE 0,
           cursor |-> a.cursor,
           table |-> IF result = "registered"
                       THEN Put(ports_in_use, [port |-> a.port, name |-> name, proc |-> id])
                       ELSE ports_in_use,
           procs |-> Append(procs, proc)]

\* ------------------------------------------------------ close_ssh_thread
\* process.kill()
Kill(ps, id) ==
  [ps EXCEPT ![id].state = IF @ = "running" THEN "killed" ELSE @,
             ![id].kills = @ + 1]

\* close_ssh_thread(p) emptying the table instead of popping p
CloseSshThreadClears(t, ps, p) ==
  IF p \in Keys(t)
    THEN [table |-> <<>>, procs |-> Kill(ps, Entry(t, p).proc)]
    ELSE [table |-> t, procs |-> ps]

\* close_ssh_thread(p) when kill() returns: the table and the processes after
CloseSshThread(t, ps, p) ==
  IF p \in Keys(t)
    THEN [table |-> Pop(t, p), procs |-> Kill(ps, Entry(t, p).proc)]
    ELSE [table |-> t, procs |-> ps]

\* close_ssh_threads() walking list(keys): every tunnel closed when failAt = 0;
\* else the kill() of the failAt-th key raises after its entry was popped, and
\* the later keys are not reached
RECURSIVE CloseSshThreads(_, _, _, _)
CloseSshThreads(t, ps, k, failAt) ==
  IF t = <<>> THEN [table |-> t, procs |-> ps]
  ELSE IF k = failAt THEN [table |-> Tail(t), procs |-> ps]
  ELSE LET c == CloseSshThread(t, ps, Head(t).port)
       IN CloseSshThreads(c.table, c.procs, k + 1, failAt)

\* ---------------------------------------------------- start_vnc_session
Range(f) == {f[i] : i \in 1..Len(f)}

\* for p in self.ports_in_use.keys(): the first port whose entry carries the
\* session's display (0: local_port stays None)
ExistingTunnel(display) ==
  LET idx == {i \in 1..Len(ports_in_use) : ports_in_use[i].name = display}
  IN IF idx = {} THEN 0
     ELSE ports_in_use[CHOOSE i \in idx : \A j \in idx : i <= j].port

Pending == {t \in 1..Len(vnc_threads) : vnc_threads[t].st \in {"started", "popened"}}

\* the process subprocess.Popen(cmd) makes (line 836); with a tunnel the
\* vncserver of the address is 'localhost' (lines 331, 346)
NewViewer(port) ==
  [port |-> port, state |-> "running", terms |-> 0,
   addr |-> ViewerAddress(vncviewer, vncprefix, "localhost", port)]

\* LaunchThread without the test of lines 355-358
LaunchThreadUnchecked(port) ==
  \/ /\ vnc_threads' = Append(vnc_threads, [port |-> port, st |-> "done",
                                            vid |-> Len(viewers) + 1])
     /\ viewers' = Append(viewers, NewViewer(port))
     /\ vnc_processes' = Append(vnc_processes, Len(viewers) + 1)
  \/ /\ Cardinality(Pending) < MaxPending
     /\ vnc_threads' = Append(vnc_threads, [port |-> port, st |-> "started", vid |-> 0])
     /\ UNCHANGED <<viewers, vnc_processes>>

\* threading.Thread(target=self.launch_vncviewer, ...).start(), unless
\* self.vncviewer in [None, 'None', 'none'].  The thread either runs to its end
\* during the time.sleep(0.05) that follows (Popen, then the append to
\* vnc_processes) or is still running when start_vnc_session returns.
LaunchThread(port) ==
  IF vncviewer = "None"
  THEN UNCHANGED <<vnc_threads, viewers, vnc_processes>>
  ELSE \/ /\ vnc_threads' = Append(vnc_threads, [port |-> port, st |-> "done",
                                                 vid |-> Len(viewers) + 1])
          /\ viewers' = Append(viewers, NewViewer(port))
          /\ vnc_processes' = Append(vnc_processes, Len(viewers) + 1)
       \/ /\ Cardinality(Pending) < MaxPending
          /\ vnc_threads' = Append(vnc_threads, [port |-> port, st |-> "started", vid |-> 0])
          /\ UNCHANGED <<viewers, vnc_processes>>

Returned(r, name) ==
  IF r.ret # 0 THEN returned \cup {<<name, r.ret>>} ELSE returned

StartVncSessionNoTunnel(display, oc) ==
  /\ UNCHANGED <<ports_in_use, local_port, procs, returned, faults>>
  /\ LaunchThread(local_port)

StartVncSession(display, oc) ==
  IF display \notin {s.display : s \in Range(sessions_found)}
  THEN UNCHANGED <<ports_in_use, local_port, procs, returned, vnc_threads, viewers,
                   vnc_processes, faults>>
  ELSE
    LET e == ExistingTunnel(display)
    IN IF e # 0
       THEN /\ UNCHANGED <<ports_in_use, local_port, procs, returned, faults>>
            /\ LaunchThread(e)
       ELSE LET r == OpenSshTunnel(display, 0, oc)
            IN /\ r.possible
               /\ r.fault => faults < MaxFaults
               /\ faults' = IF r.fault THEN faults + 1 ELSE faults
               /\ ports_in_use' = r.table
               /\ local_port' = r.cursor
               /\ procs' = r.procs
               /\ returned' = Returned(r, display)
               /\ IF r.raised
                    THEN UNCHANGED <<vnc_threads, viewers, vnc_processes>>
                    ELSE LaunchThread(r.ret)

\* ------------------------------------------------------ start_soundplay
\* self.sound.terminate()
Terminate(ss, i) == [ss EXCEPT ![i].live = FALSE, ![i].terms = @ + 1]

\* start_soundplay calling open_ssh_tunnel without local_port=sound_port
StartSoundplayNoPort(oc, connected) ==
  LET r   == OpenSshTunnel(SOUNDPLAY, 0, oc)
      old == IF sound # 0 THEN Terminate(sounds, sound) ELSE sounds
      n   == (IF r.fault THEN 1 ELSE 0) + (IF connected THEN 0 ELSE 1)
  IN /\ r.possible
     /\ faults + n <= MaxFaults
     /\ faults' = faults + n
     /\ ports_in_use' = r.table
     /\ local_port' = r.cursor
     /\ procs' = r.procs
     /\ returned' = Returned(r, SOUNDPLAY)
     /\ IF r.raised \/ r.ret = 0
          THEN /\ connected
               /\ sounds' = old
               /\ UNCHANGED sound
          ELSE /\ sounds' = Append(old, [live |-> connected, terms |-> 0])
               /\ sound' = Len(old) + 1

\* start_soundplay without the self.sound.terminate() of lines 857-858
StartSoundplayKeepsOld(oc, connected) ==
  LET r   == OpenSshTunnel(SOUNDPLAY, SOUND_PORT, oc)
      old == sounds
      n   == (IF r.fault THEN 1 ELSE 0) + (IF connected THEN 0 ELSE 1)
  IN /\ r.possible
     /\ faults + n <= MaxFaults
     /\ faults' = faults + n
     /\ ports_in_use' = r.table
     /\ local_port' = r.cursor
     /\ procs' = r.procs
     /\ returned' = Returned(r, SOUNDPLAY)
     /\ IF r.raised \/ r.ret = 0
          THEN /\ connected
               /\ sounds' = old
               /\ UNCHANGED sound
          ELSE /\ sounds' = Append(old, [live |-> connected, terms |-> 0])
               /\ sound' = Len(old) + 1

\* connected: soundplay.connect returned; it raising is an injected failure
StartSoundplay(oc, connected) ==
  LET r   == OpenSshTunnel(SOUNDPLAY, SOUND_PORT, oc)
      old == IF sound # 0 THEN Terminate(sounds, sound) ELSE sounds
      n   == (IF r.fault THEN 1 ELSE 0) + (IF connected THEN 0 ELSE 1)
  IN /\ r.possible
     /\ faults + n <= MaxFaults
     /\ faults' = faults + n
     /\ ports_in_use' = r.table
     /\ local_port' = r.cursor
     /\ procs' = r.procs
     /\ returned' = Returned(r, SOUNDPLAY)
     /\ IF r.raised \/ r.ret = 0
          THEN /\ connected
               /\ sounds' = old
               /\ UNCHANGED sound
          ELSE /\ sounds' = Append(old, [live |-> connected, terms |-> 0])
               /\ sound' = Len(old) + 1

\* ------------------------------------------------------------------ Init
ProgramInit ==
  /\ pc = "start"
  /\ ctx = "start"
  /\ exit = FALSE
  /\ atexit_registered = FALSE
  /\ atexit_ran = FALSE
  /\ exit_status = -1
  /\ vncviewer = "None"
  /\ vncprefix = "None"
  /\ nosound = FALSE
  /\ connection_valid = FALSE
  /\ quit = FALSE
  /\ check_cmd = "None"
  /\ data = <<>>
  /\ sessions_found = <<>>
  /\ batch_i = 0
  /\ ports_in_use = <<>>
  /\ local_port = LOCAL_PORT_START
  /\ procs = <<>>
  /\ ext = "none"
  /\ vnc_threads = <<>>
  /\ viewers = <<>>
  /\ vnc_processes = <<>>
  /\ sound = 0
  /\ sounds = <<>>
  /\ stage = 0
  /\ td_log = <<>>
  /\ td_runs = 0
  /\ exit_calls = 0
  /\ returned = {}
  /\ cmds = 0
  /\ faults = 0

\* no override of the probing tool, and no tool looked for yet
Init ==
  /\ ProgramInit
  /\ config_check_cmd = "None"
  /\ args_check = "None"
  /\ installed = {}

\* the variables of the tunnel table, the viewers and the audio relay
work == <<ports_in_use, local_port, procs, vnc_threads, viewers, vnc_processes,
          sound, sounds, returned>>
config == <<vncviewer, vncprefix, nosound, check_cmd, config_check_cmd, args_check,
            installed>>

\* self.exit_app(...) called from c
CallExitApp(c) ==
  /\ pc' = "exit_app"
  /\ ctx' = c
  /\ stage' = 0

\* ----------------------------------------------------------------- start()
\* argument check, get_config, check_config, test mode (lines 200-220)
StartConfig ==
  /\ pc = "start"
  /\ \E oc \in {"bad_account", "no_config", "no_key", "test_mode", "ok"} :
       \/ /\ oc \in {"bad_account", "no_config"}
          /\ CallExitApp("start")
          /\ UNCHANGED <<config, connection_valid, quit, local_port, exit_status>>
       \/ /\ oc = "no_key"                  \* check_config: sys.exit()
          /\ pc' = "finalize"
          /\ exit_status' = 0
          /\ UNCHANGED <<ctx, stage, config, connection_valid, quit, local_port>>
       \/ /\ oc = "test_mode"
          /\ CallExitApp("start")
          /\ UNCHANGED <<config, connection_valid, quit, local_port, exit_status>>
       \/ /\ oc = "ok"
          /\ \E c \in Configs :
               /\ vncviewer' = c.vncviewer
               /\ vncprefix' = c.vncprefix
               /\ nosound' = c.nosound
               /\ config_check_cmd' = "None"
               /\ args_check' = "None"
               /\ installed' = c.installed
               /\ check_cmd' = HowCheckLocalPort("None", "None", c.installed)
               /\ local_port' = c.lps
          /\ pc' = "validate"
          /\ UNCHANGED <<ctx, stage, exit_status>>
  /\ UNCHANGED <<exit, atexit_registered, atexit_ran, connection_valid, quit, data,
                 sessions_found, batch_i, ports_in_use, procs, ext, vnc_threads,
                 viewers, vnc_processes, sound, sounds, td_log, td_runs,
                 exit_calls, returned, cmds, faults>>

\* Validate without the test of lines 237-241
ValidateUnchecked ==
  /\ pc = "validate"
  /\ \E valid \in BOOLEAN, authonly \in BOOLEAN :
       /\ connection_valid' = valid
       /\ IF authonly
            THEN CallExitApp("start")
            ELSE pc' = "discover" /\ UNCHANGED <<ctx, stage>>
  /\ UNCHANGED <<exit, atexit_registered, atexit_ran, exit_status, config, quit,
                 data, sessions_found, batch_i, ext, work, td_log, td_runs, exit_calls,
                 cmds, faults>>

\* determine_tel, validate_connection, --authonly (lines 227-247).
\* validate_connection sets self.connection_valid only when the routing table
\* shows the network (line 1081); start() calls exit_app when it is not set.
Validate ==
  /\ pc = "validate"
  /\ \E valid \in BOOLEAN, authonly \in BOOLEAN :
       /\ connection_valid' = valid
       /\ IF ~connection_valid' \/ authonly
            THEN CallExitApp("start")
            ELSE pc' = "discover" /\ UNCHANGED <<ctx, stage>>
  /\ UNCHANGED <<exit, atexit_registered, atexit_ran, exit_status, config, quit,
                 data, sessions_found, batch_i, ext, work, td_log, td_runs, exit_calls,
                 cmds, faults>>

\* Discover without the test of lines 251-252: the loop over no session is
\* skipped and start() goes on
DiscoverNoEmptyCheck ==
  /\ pc = "discover"
  /\ \E d \in DiscoveryOutputs :
       LET r == GetVncSessions(d)
       IN /\ data' = d
          /\ IF r.raised
               THEN /\ pc' = "fatal"
                    /\ UNCHANGED <<ctx, stage, sessions_found, batch_i>>
               ELSE /\ sessions_found' = r.sessions
                    /\ IF r.sessions = <<>>
                         THEN pc' = "sound" /\ UNCHANGED <<ctx, stage, batch_i>>
                         ELSE pc' = "batch" /\ batch_i' = 1 /\ UNCHANGED <<ctx, stage>>
  /\ ports_in_use' = <<>>
  /\ vnc_threads' = <<>>
  /\ vnc_processes' = <<>>
  /\ UNCHANGED <<exit, atexit_registered, atexit_ran, exit_status, config,
                 connection_valid, quit, ext, local_port, procs, viewers, sound, sounds,
                 returned, td_log, td_runs, exit_calls, cmds, faults>>

\* get_vnc_sessions and the reset of the tables (lines 249-262).  An exception
\* of the parsing loop leaves get_vnc_sessions and start(): main() catches it.
Discover ==
  /\ pc = "discover"
  /\ \E d \in DiscoveryOutputs :
       LET r == GetVncSessions(d)
       IN /\ data' = d
          /\ IF r.raised
               THEN /\ pc' = "fatal"
                    /\ UNCHANGED <<ctx, stage, sessions_found, batch_i>>
               ELSE /\ sessions_found' = r.sessions
                    /\ IF r.sessions = <<>>
                         THEN CallExitApp("start") /\ UNCHANGED batch_i
                         ELSE pc' = "batch" /\ batch_i' = 1 /\ UNCHANGED <<ctx, stage>>
  /\ ports_in_use' = <<>>
  /\ vnc_threads' = <<>>
  /\ vnc_processes' = <<>>
  /\ UNCHANGED <<exit, atexit_registered, atexit_ran, exit_status, config,
                 connection_valid, quit, ext, local_port, procs, viewers, sound, sounds,
                 returned, td_log, td_runs, exit_calls, cmds, faults>>

\* for s in self.sessions_found: self.start_vnc_session(s.display).  A display
\* that is not a number makes int(session.display) raise ValueError (line 315),
\* outside the try of start_vnc_session: the exception leaves the loop and start().
BatchStep ==
  /\ pc = "batch"
  /\ LET display == sessions_found[batch_i].display
     IN IF IsInt(display)
        THEN /\ \E oc \in SpawnOutcomes : StartVncSession(display, oc)
             /\ batch_i' = batch_i + 1
             /\ pc' = IF batch_i = Len(sessions_found) THEN "sound" ELSE "batch"
        ELSE /\ pc' = "fatal"
             /\ UNCHANGED <<batch_i, ports_in_use, local_port, procs, returned,
                            vnc_threads, viewers, vnc_processes, faults>>
  /\ UNCHANGED <<ctx, exit, atexit_registered, atexit_ran, exit_status, config,
                 connection_valid, quit, data, sessions_found, ext, sound, sounds, stage,
                 td_log, td_runs, exit_calls, cmds>>

\* the audio relay unless disabled, then atexit.register (lines 270-278)
SoundStep ==
  /\ pc = "sound"
  /\ IF nosound
       THEN UNCHANGED <<ports_in_use, local_port, procs, returned, sound, sounds, faults>>
       ELSE \E oc \in SpawnOutcomes, connected \in BOOLEAN : StartSoundplay(oc, connected)
  /\ atexit_registered' = TRUE
  /\ pc' = "menu"
  /\ UNCHANGED <<ctx, exit, atexit_ran, exit_status, config, connection_valid, quit, data,
                 sessions_found, batch_i, ext, vnc_threads, viewers, vnc_processes,
                 stage, td_log, td_runs, exit_calls, cmds>>

\* ----------------------------------------------------------- prompt_menu
\* an exception leaves prompt_menu and start(): main() catches it
Raise ==
  /\ pc' = "fatal"
  /\ UNCHANGED <<ctx, stage>>

\* 'q': the loop ends and start() calls self.exit_app()
CmdQuit ==
  /\ pc = "menu"
  /\ quit' = TRUE
  /\ CallExitApp("start")
  /\ cmds' = 0
  /\ UNCHANGED <<exit, atexit_registered, atexit_ran, exit_status, config,
                 connection_valid, data, sessions_found, batch_i, ext, work, td_log,
                 td_runs, exit_calls, faults>>

\* 's': self.start_soundplay()
CmdSound ==
  /\ pc = "menu" /\ cmds < MaxCmds
  /\ \E oc \in SpawnOutcomes, connected \in BOOLEAN : StartSoundplay(oc, connected)
  /\ cmds' = cmds + 1
  /\ UNCHANGED <<pc, ctx, exit, atexit_registered, atexit_ran, exit_status, config,
                 connection_valid, quit, data, sessions_found, batch_i, ext, vnc_threads,
                 viewers, vnc_processes, stage, td_log, td_runs, exit_calls>>

\* the ports a 'c <port>' command is tried with: every open one and two others
ClosePorts == Keys(ports_in_use) \cup {LOCAL_PORT_START, SOUND_PORT}

\* 'c <port>': self.close_ssh_thread(port); kill() returns
CmdClose ==
  /\ pc = "menu" /\ cmds < MaxCmds
  /\ \E p \in ClosePorts :
       LET c == CloseSshThread(ports_in_use, procs, p)
       IN ports_in_use' = c.table /\ procs' = c.procs
  /\ cmds' = cmds + 1
  /\ UNCHANGED <<pc, ctx, exit, atexit_registered, atexit_ran, exit_status, config,
                 connection_valid, quit, data, sessions_found, batch_i, ext, local_port,
                 vnc_threads, viewers, vnc_processes, sound, sounds, returned, stage,
                 td_log, td_runs, exit_calls, faults>>

\* 'c <port>' when kill() raises: the entry is popped, the process lives on
CmdCloseRaises ==
  /\ pc = "menu" /\ cmds < MaxCmds /\ faults < MaxFaults
  /\ \E p \in Keys(ports_in_use) : ports_in_use' = Pop(ports_in_use, p)
  /\ cmds' = 0
  /\ faults' = faults + 1
  /\ Raise
  /\ UNCHANGED <<exit, atexit_registered, atexit_ran, exit_status, config,
                 connection_valid, quit, data, sessions_found, batch_i, ext, local_port,
                 procs, vnc_threads, viewers, vnc_processes, sound, sounds, returned,
                 td_log, td_runs, exit_calls>>

\* '<digit>': desktop = digit - 1; start_vnc_session when 0 <= desktop < 6
CmdOpen ==
  /\ pc = "menu" /\ cmds < MaxCmds
  /\ \E digit \in 0..(MaxDisplay + 1) :
       LET desktop == digit - 1
       IN IF desktop >= 0 /\ desktop < MaxDesktop
          THEN IF /\ desktop + 1 <= Len(sessions_found)
                  /\ IsInt(sessions_found[desktop + 1].display)
               THEN /\ \E oc \in SpawnOutcomes :
                         StartVncSession(sessions_found[desktop + 1].display, oc)
                    /\ UNCHANGED <<pc, ctx, stage>>
               ELSE /\ Raise                     \* IndexError, ValueError
                    /\ UNCHANGED <<ports_in_use, local_port, procs, returned,
                                   vnc_threads, viewers, vnc_processes, faults>>
          ELSE UNCHANGED <<pc, ctx, stage, ports_in_use, local_port, procs,
                           returned, vnc_threads, viewers, vnc_processes, faults>>
  /\ cmds' = IF pc' = "fatal" THEN 0 ELSE cmds + 1
  /\ UNCHANGED <<exit, atexit_registered, atexit_ran, exit_status, config,
                 connection_valid, quit, data, sessions_found, batch_i, ext, sound,
                 sounds, td_log, td_runs, exit_calls>>

ExitAppOrderTunnelsFirst == <<"tunnels", "sound", "vnc", "flag">>

\* the steps of the body of exit_app, in program order (lines 1619-1632)
ExitAppOrder == <<"sound", "tunnels", "vnc", "flag">>

\* ------------------------------------------------------ launch_vncviewer
\* subprocess.Popen(cmd) in thread t
ThreadPopen(t) ==
  /\ pc # "ended"
  /\ vnc_threads[t].st = "started"
  /\ viewers' = Append(viewers, NewViewer(vnc_threads[t].port))
  /\ vnc_threads' = [vnc_threads EXCEPT ![t].st = "popened", ![t].vid = Len(viewers) + 1]
  /\ UNCHANGED <<pc, ctx, exit, atexit_registered, atexit_ran, exit_status, config,
                 connection_valid, quit, data, sessions_found, batch_i, ports_in_use,
                 local_port, procs, ext, vnc_processes, sound, sounds, stage, td_log,
                 td_runs, exit_calls, returned, cmds, faults>>

\* Popen raising seen by the main thread, as if launch_vncviewer were called
\* and not started as a thread
ThreadPopenRaisesInMain(t) ==
  /\ pc \in {"batch", "sound", "menu"} /\ faults < MaxFaults
  /\ vnc_threads[t].st = "started"
  /\ vnc_threads' = [vnc_threads EXCEPT ![t].st = "failed"]
  /\ faults' = faults + 1
  /\ pc' = "fatal"
  /\ UNCHANGED <<ctx, exit, atexit_registered, atexit_ran, exit_status, config,
                 connection_valid, quit, data, sessions_found, batch_i, ports_in_use,
                 local_port, procs, ext, viewers, vnc_processes, sound, sounds, stage,
                 td_log, td_runs, exit_calls, returned, cmds>>

\* the thread closes the tunnel of its viewer when Popen raises
ThreadPopenRaisesClosesTunnel(t) ==
  /\ pc # "ended" /\ faults < MaxFaults
  /\ vnc_threads[t].st = "started"
  /\ vnc_threads' = [vnc_threads EXCEPT ![t].st = "failed"]
  /\ faults' = faults + 1
  /\ ports_in_use' = Pop(ports_in_use, vnc_threads[t].port)
  /\ UNCHANGED <<pc, ctx, exit, atexit_registered, atexit_ran, exit_status, config,
                 connection_valid, quit, data, sessions_found, batch_i, local_port,
                 procs, ext, viewers, vnc_processes, sound, sounds, stage, td_log,
                 td_runs, exit_calls, returned, cmds>>

\* Popen raises in thread t: the thread ends, nothing is tracked
ThreadPopenRaises(t) ==
  /\ pc # "ended" /\ faults < MaxFaults
  /\ vnc_threads[t].st = "started"
  /\ vnc_threads' = [vnc_threads EXCEPT ![t].st = "failed"]
  /\ faults' = faults + 1
  /\ UNCHANGED <<pc, ctx, exit, atexit_registered, atexit_ran, exit_status, config,
                 connection_valid, quit, data, sessions_found, batch_i, ports_in_use,
                 local_port, procs, ext, viewers, vnc_processes, sound, sounds, stage,
                 td_log, td_runs, exit_calls, returned, cmds>>

\* self.vnc_processes.append(proc) in thread t
ThreadAppend(t) ==
  /\ pc # "ended"
  /\ vnc_threads[t].st = "popened"
  /\ vnc_processes' = Append(vnc_processes, vnc_threads[t].vid)
  /\ vnc_threads' = [vnc_threads EXCEPT ![t].st = "done"]
  /\ UNCHANGED <<pc, ctx, exit, atexit_registered, atexit_ran, exit_status, config,
                 connection_valid, quit, data, sessions_found, batch_i, ports_in_use,
                 local_port, procs, ext, viewers, sound, sounds, stage, td_log, td_runs,
                 exit_calls, returned, cmds, faults>>

\* --------------------------------------------------------- environment
\* a viewer window is closed by the user.  The program sees it only through
\* proc.poll() in kill_vnc_processes, so the exit is taken right before it.
ViewerExits(v) ==
  /\ pc = "exit_app" /\ stage \in 1..Len(ExitAppOrder) /\ ExitAppOrder[stage] = "vnc"
  /\ vnc_processes # <<>> /\ v = vnc_processes[Len(vnc_processes)]
  /\ viewers[v].state = "running"
  /\ faults < MaxFaults
  /\ faults' = faults + 1
  /\ viewers' = [viewers EXCEPT ![v].state = "exited"]
  /\ UNCHANGED <<pc, ctx, exit, atexit_registered, atexit_ran, exit_status, config,
                 connection_valid, quit, data, sessions_found, batch_i, ports_in_use,
                 local_port, procs, ext, vnc_threads, vnc_processes, sound, sounds,
                 stage, td_log, td_runs, exit_calls, returned, cmds>>

\* other programs start or stop listening on local ports
ExtChange ==
  /\ pc \in {"batch", "sound", "menu"}
  /\ faults < MaxFaults
  /\ faults' = faults + 1
  /\ ext' \in ExtPatterns \ {ext}
  /\ UNCHANGED <<pc, ctx, exit, atexit_registered, atexit_ran, exit_status, config,
                 connection_valid, quit, data, sessions_found, batch_i, work, stage,
                 td_log, td_runs, exit_calls, cmds>>

\* any other line ('', w, p, u, l, t, v, an unknown command): back to the prompt
CmdOther ==
  /\ pc = "menu" /\ cmds < MaxCmds
  /\ cmds' = cmds + 1
  /\ UNCHANGED <<pc, ctx, exit, atexit_registered, atexit_ran, exit_status, config,
                 connection_valid, quit, data, sessions_found, batch_i, ext, work, stage,
                 td_log, td_runs, exit_calls, faults>>

\* --------------------------------------------------------------- exit_app
ExitGuardOff == FALSE

\* if self.exit: return
ExitGuard == exit

AtStage(s) == pc = "exit_app" /\ stage \in 1..Len(ExitAppOrder) /\ ExitAppOrder[stage] = s

\* where control goes when exit_app is left by return, sys.exit or an exception
\* raised in the atexit hook (the interpreter ignores it), or by sys.exit
LeaveExitApp == pc' = IF ctx = "atexit" THEN "ended" ELSE "finalize"

\* the call itself: the guard of line 1613
ExitAppBegin ==
  /\ pc = "exit_app" /\ stage = 0
  /\ exit_calls' = exit_calls + 1
  /\ IF ExitGuard
       THEN LeaveExitApp /\ UNCHANGED <<stage, td_runs, td_log>>
       ELSE /\ stage' = 1
            /\ td_runs' = td_runs + 1
            /\ td_log' = <<>>
            /\ UNCHANGED pc
  /\ UNCHANGED <<ctx, exit, atexit_registered, atexit_ran, exit_status, config,
                 connection_valid, quit, data, sessions_found, batch_i, ext, work, cmds,
                 faults>>

\* if self.sound: self.sound.terminate()
ExitSound ==
  /\ AtStage("sound")
  /\ IF sound # 0
       THEN sounds' = Terminate(sounds, sound) /\ td_log' = Append(td_log, "sound")
       ELSE UNCHANGED <<sounds, td_log>>
  /\ stage' = stage + 1
  /\ UNCHANGED <<pc, ctx, exit, atexit_registered, atexit_ran, exit_status, config,
                 connection_valid, quit, data, sessions_found, batch_i, ports_in_use,
                 local_port, procs, ext, vnc_threads, viewers, vnc_processes, sound,
                 td_runs, exit_calls, returned, cmds, faults>>

\* self.close_ssh_threads(), every kill() returning
ExitTunnels ==
  /\ AtStage("tunnels")
  /\ LET c == CloseSshThreads(ports_in_use, procs, 1, 0)
     IN ports_in_use' = c.table /\ procs' = c.procs
  /\ td_log' = IF ports_in_use # <<>> THEN Append(td_log, "tunnels") ELSE td_log
  /\ stage' = stage + 1
  /\ UNCHANGED <<pc, ctx, exit, atexit_registered, atexit_ran, exit_status, config,
                 connection_valid, quit, data, sessions_found, batch_i, local_port, ext,
                 vnc_threads, viewers, vnc_processes, sound, sounds, td_runs,
                 exit_calls, returned, cmds, faults>>

\* self.close_ssh_threads() when a kill() raises: the exception leaves exit_app
\* before self.exit is set; main() catches it when start() made the call.
\* The body is entered a second time only after a kill() raised in an earlier
\* call; what made it raise then can make it raise again, and is not counted
\* as a new failure.
ExitTunnelsRaises ==
  /\ AtStage("tunnels") /\ (faults < MaxFaults \/ td_runs >= 2)
  /\ \E failAt \in 1..Len(ports_in_use) :
       LET c == CloseSshThreads(ports_in_use, procs, 1, failAt)
       IN ports_in_use' = c.table /\ procs' = c.procs
  /\ td_log' = Append(td_log, "tunnels")
  /\ faults' = IF faults < MaxFaults THEN faults + 1 ELSE faults
  /\ stage' = 0
  /\ pc' = CASE ctx = "start" -> "fatal"
             [] ctx = "fatal" -> "finalize"
             [] OTHER -> "ended"
  /\ exit_status' = IF ctx = "fatal" THEN 1 ELSE exit_status
  /\ UNCHANGED <<ctx, exit, atexit_registered, atexit_ran, config, connection_valid, quit,
                 data, sessions_found, batch_i, local_port, ext, vnc_threads, viewers,
                 vnc_processes, sound, sounds, td_runs, exit_calls, returned, cmds>>

\* proc.terminate() that sends nothing
TerminateViewerNot(vs, v) == vs

\* proc.terminate()
TerminateViewer(vs, v) ==
  [vs EXCEPT ![v].state = "terminated", ![v].terms = @ + 1]

\* kill_vnc_processes: one turn of while self.vnc_processes; the loop over,
\* exit_app goes on
ExitVnc ==
  /\ AtStage("vnc")
  /\ IF vnc_processes = <<>>
       THEN stage' = stage + 1 /\ UNCHANGED <<vnc_processes, viewers, td_log>>
       ELSE LET v == vnc_processes[Len(vnc_processes)]
            IN /\ vnc_processes' = SubSeq(vnc_processes, 1, Len(vnc_processes) - 1)
               /\ IF viewers[v].state = "running"
                    THEN /\ viewers' = TerminateViewer(viewers, v)
                         /\ td_log' = Append(td_log, "vnc")
                    ELSE UNCHANGED <<viewers, td_log>>
               /\ UNCHANGED stage
  /\ UNCHANGED <<pc, ctx, exit, atexit_registered, atexit_ran, exit_status, config,
                 connection_valid, quit, data, sessions_found, batch_i, ports_in_use,
                 local_port, procs, ext, vnc_threads, sound, sounds, td_runs,
                 exit_calls, returned, cmds, faults>>

\* kill_vnc_processes when terminate() raises: the bare except ends the loop
ExitVncRaises ==
  /\ AtStage("vnc") /\ faults < MaxFaults
  /\ vnc_processes # <<>>
  /\ viewers[vnc_processes[Len(vnc_processes)]].state = "running"
  /\ vnc_processes' = SubSeq(vnc_processes, 1, Len(vnc_processes) - 1)
  /\ faults' = faults + 1
  /\ stage' = stage + 1
  /\ UNCHANGED <<pc, ctx, exit, atexit_registered, atexit_ran, exit_status, config,
                 connection_valid, quit, data, sessions_found, batch_i, ports_in_use,
                 local_port, procs, ext, vnc_threads, viewers, sound, sounds, td_log,
                 td_runs, exit_calls, returned, cmds>>

\* self.exit = True; sys.exit(1)
ExitFlag ==
  /\ AtStage("flag")
  /\ exit' = TRUE
  /\ td_log' = Append(td_log, "exit")
  /\ exit_status' = IF ctx = "atexit" THEN exit_status ELSE 1
  /\ LeaveExitApp
  /\ stage' = 0
  /\ UNCHANGED <<ctx, atexit_registered, atexit_ran, config, connection_valid, quit, data,
                 sessions_found, batch_i, ext, work, td_runs, exit_calls, cmds, faults>>

\* ------------------------------------------------------------------ main()
\* except Exception as error: lvl.handle_fatal_error(error)
HandleFatalError ==
  /\ pc = "fatal"
  /\ CallExitApp("fatal")
  /\ UNCHANGED <<exit, atexit_registered, atexit_ran, exit_status, config,
                 connection_valid, quit, data, sessions_found, batch_i, ext, work, td_log,
                 td_runs, exit_calls, cmds, faults>>

AllThreadsOver == \A t \in 1..Len(vnc_threads) : vnc_threads[t].st \in {"done", "failed"}

\* the interpreter shuts down: it joins the launch threads, then calls the
\* atexit hook if one was registered, then the process ends
Finalize ==
  /\ pc = "finalize"
  /\ AllThreadsOver
  /\ IF atexit_registered /\ ~atexit_ran
       THEN atexit_ran' = TRUE /\ CallExitApp("atexit")
       ELSE pc' = "ended" /\ UNCHANGED <<ctx, stage, atexit_ran>>
  /\ UNCHANGED <<exit, atexit_registered, exit_status, config, connection_valid, quit,
                 data, sessions_found, batch_i, ext, work, td_log, td_runs, exit_calls,
                 cmds, faults>>

Next ==
  \/ StartConfig
  \/ Validate
  \/ Discover
  \/ BatchStep
  \/ SoundStep
  \/ CmdQuit
  \/ CmdSound
  \/ CmdClose
  \/ CmdCloseRaises
  \/ CmdOpen
  \/ CmdOther
  \/ \E t \in 1..Len(vnc_threads) : ThreadPopen(t)
  \/ \E t \in 1..Len(vnc_threads) : ThreadPopenRaises(t)
  \/ \E t \in 1..Len(vnc_threads) : ThreadAppend(t)
  \/ \E v \in 1..Len(viewers) : ViewerExits(v)
  \/ ExtChange
  \/ ExitAppBegin
  \/ ExitSound
  \/ ExitTunnels
  \/ ExitTunnelsRaises
  \/ ExitVnc
  \/ ExitVncRaises
  \/ ExitFlag
  \/ HandleFatalError
  \/ Finalize

Spec == Init /\ [][Next]_vars

\* ------------------------------------- how_check_local_port on its own
\* every configured value, every --check and every set of installed tools
HowCheckInit ==
  /\ ProgramInit
  /\ config_check_cmd \in CheckValues
  /\ args_check \in CheckValues
  /\ installed \in SUBSET ValidTools

\* self.how_check_local_port() (line 216)
HowCheckStep ==
  /\ pc = "start"
  /\ check_cmd' = HowCheckLocalPort(config_check_cmd, args_check, installed)
  /\ pc' = "how_checked"
  /\ UNCHANGED <<ctx, exit, atexit_registered, atexit_ran, exit_status, vncviewer,
                 vncprefix, nosound, connection_valid, quit, config_check_cmd,
                 args_check, installed, data, sessions_found, batch_i, ext, work,
                 stage, td_log, td_runs, exit_calls, cmds, faults>>

HowCheckSpec == HowCheckInit /\ [][HowCheckStep]_vars

\* ============================================================ properties

Running(ps) == {i \in 1..Len(ps) : ps[i].state = "running"}

\* C1: when the process has ended, no ssh process spawned by open_ssh_tunnel is
\* still running.
C1_AllTunnelsKilled ==
  pc = "ended" => Running(procs) = {}

\* C2: the body of exit_app is never entered twice, and a run in which exit_app
\* was called ends with the body executed exactly once.
C2_TeardownExactlyOnce ==
  /\ td_runs <= 1
  /\ (pc = "ended" /\ exit_calls > 0) => td_runs = 1

\* C3: once self.exit is set, no step performs a teardown action: the body of
\* exit_app is not entered, no tunnel is closed or ssh process killed, no viewer
\* that exists is terminated, and no audio player is terminated.
C3_NoTeardownAfterDone ==
  [][exit =>
       /\ td_runs' = td_runs
       /\ ports_in_use' = ports_in_use
       /\ procs' = procs
       /\ sounds' = sounds
       /\ \A v \in 1..Len(viewers) : viewers'[v] = viewers[v]]_vars

\* exit_app was called again (by the atexit hook) after self.exit was set, and
\* the process has ended
C3_Witness ==
  pc = "ended" /\ exit /\ ctx = "atexit" /\ exit_calls >= 2 /\ td_runs = 1

Rank(e) == CASE e = "sound" -> 1 [] e = "tunnels" -> 2 [] e = "vnc" -> 3 [] OTHER -> 4

SoundDown == sound = 0 \/ ~sounds[sound].live

\* C4: within one call of exit_app the teardown events come in the order audio
\* player, tunnels, viewers, exit; the tunnels are closed only once the audio
\* player is down, and the viewers are terminated only once the audio player is
\* down and the port table is empty.
C4_TeardownOrder ==
  /\ \A i, j \in 1..Len(td_log) : i < j => Rank(td_log[i]) <= Rank(td_log[j])
  /\ AtStage("tunnels") => SoundDown
  /\ AtStage("vnc") => SoundDown /\ ports_in_use = <<>>
  /\ AtStage("flag") => SoundDown /\ ports_in_use = <<>>

\* a teardown that terminated the audio player, closed tunnels, terminated a
\* viewer and then exited
C4_Witness ==
  pc = "ended" /\ td_log = <<"sound", "tunnels", "vnc", "exit">>

\* C5: every run that has ended went through the body of exit_app.
C5_TeardownOnEveryExit ==
  pc = "ended" => td_runs >= 1

\* C6: in a run without any failure of the environment, when the process has
\* ended no viewer process spawned by a launch thread is still running.
C6_AllViewersTerminated ==
  (pc = "ended" /\ faults = 0) => \A v \in 1..Len(viewers) : viewers[v].state # "running"

\* C7: the local ports returned by successful open_ssh_tunnel calls with
\* distinct session labels are pairwise distinct.
C7_DistinctPorts ==
  \A a, b \in returned : a[1] # b[1] => a[2] # b[2]

SpawnsFor(ps, n) == Cardinality({i \in 1..Len(ps) : ps[i].name = n})

\* C8: while a tunnel for a session name (or the audio relay) is registered in
\* ports_in_use, no step spawns another ssh process for that name.
C8_NoSecondTunnel ==
  [][\A i \in 1..Len(ports_in_use) :
       SpawnsFor(procs', ports_in_use[i].name) = SpawnsFor(procs, ports_in_use[i].name)]_vars

\* C9: no step registers a tunnel on a local port that has an open tunnel in
\* ports_in_use: an entry that stays in the table keeps its process.
C9_NoRegisterOverOpenPort ==
  [][\A i \in 1..Len(ports_in_use) :
       ports_in_use[i].port \in Keys(ports_in_use')
         => Entry(ports_in_use', ports_in_use[i].port) = ports_in_use[i]]_vars

\* C10: an ssh process whose local port never became active during the polling
\* is not running once open_ssh_tunnel has failed, and it is not registered.
C10_TimeoutKillsProcess ==
  \A i \in 1..Len(procs) :
    procs[i].result = "timeout"
      => /\ procs[i].state # "running"
         /\ \A k \in 1..Len(ports_in_use) : ports_in_use[k].proc # i

\* C11: close_ssh_thread(p) removes p from the port table and gives its process
\* one kill, leaving every other tunnel alone; a second call, or a call for a
\* port that is not in the table, changes nothing and kills nothing.
C11_CloseIdempotent ==
  \A p \in ClosePorts :
    LET c1 == CloseSshThread(ports_in_use, procs, p)
        c2 == CloseSshThread(c1.table, c1.procs, p)
    IN /\ p \notin Keys(c1.table)
       /\ c2 = c1
       /\ IF p \in Keys(ports_in_use)
            THEN LET id == Entry(ports_in_use, p).proc
                 IN /\ c1.procs[id].kills = 1
                    /\ \A i \in 1..Len(procs) : i # id => c1.procs[i] = procs[i]
                    /\ \A q \in Keys(ports_in_use) \ {p} :
                         Entry(c1.table, q) = Entry(ports_in_use, q)
            ELSE c1.table = ports_in_use /\ c1.procs = procs

\* two 'c <port>' commands were typed; a tunnel was closed: its process was
\* killed once and its port is not in the table
C11_Witness ==
  /\ pc = "menu" /\ cmds = 2 /\ faults = 0
  /\ \E i \in 1..Len(procs) :
       /\ procs[i].result = "registered" /\ procs[i].state = "killed"
       /\ procs[i].kills = 1
       /\ procs[i].port \notin Keys(ports_in_use)

\* C12: in a run without any failure of the environment, once close_ssh_threads
\* has returned the port table is empty and every tunnel that was opened has
\* received exactly one kill.
C12_CloseAllKillsEach ==
  (AtStage("vnc") /\ faults = 0) =>
    /\ ports_in_use = <<>>
    /\ \A i \in 1..Len(procs) : procs[i].result = "registered" => procs[i].kills = 1

\* C13: close_ssh_threads never raises: the step that ends it goes on to the
\* next statement of exit_app with the port table empty.
C13_CloseAllNeverRaises ==
  [][(AtStage("tunnels") /\ stage' # stage) =>
       (stage' = stage + 1 /\ ports_in_use' = <<>>)]_vars

\* C14: a step that starts a viewer thread starts it on the local port of a
\* tunnel that is registered for a desktop session, its open_ssh_tunnel call
\* over, or (port 0) after open_ssh_tunnel has returned without a port.
C14_ViewerAfterTunnel ==
  [][Len(vnc_threads') > Len(vnc_threads) =>
       LET t == vnc_threads'[Len(vnc_threads')]
       IN \/ /\ t.port \in Keys(ports_in_use')
             /\ Entry(ports_in_use', t.port).name # SOUNDPLAY
             /\ procs'[Entry(ports_in_use', t.port).proc].result = "registered"
          \/ /\ t.port = 0
             /\ local_port' = LOCAL_PORT_START]_vars

\* a viewer thread was started on the port of a registered tunnel
C14_Witness ==
  \E t \in 1..Len(vnc_threads) :
    /\ vnc_threads[t].port # 0
    /\ vnc_threads[t].port \in Keys(ports_in_use)

\* C15: no viewer thread is started for a session whose open_ssh_tunnel call
\* produced no local port.
C15_AbandonOnNoPort ==
  \A t \in 1..Len(vnc_threads) : vnc_threads[t].port # 0

\* C16: a step of the auto-start batch never leaves the batch otherwise than
\* by going on: to the next session, or, after the last one, to the audio relay
\* and the command loop.
C16_BatchNeverAborts ==
  [][pc = "batch" => pc' \in {"batch", "sound"}]_vars

\* C17: a step in which open_ssh_tunnel returns an auto-allocated port returns
\* the first port at or after the cursor that the probe reports free and leaves
\* the cursor one past it; it is not a port that an earlier allocation
\* returned.
C17_FirstFreeAndAdvance ==
  [][\A r \in returned' \ returned :
       r[1] # SOUNDPLAY =>
         /\ r[2] >= local_port
         /\ \A q \in local_port..(r[2] - 1) : IsLocalPortInUse(procs, q)
         /\ ~IsLocalPortInUse(procs, r[2])
         /\ local_port' = r[2] + 1
         /\ \A o \in returned : o[1] # SOUNDPLAY => o[2] # r[2]]_vars

\* C18: once start() has chosen the probing tool, with none available
\* is_local_port_in_use reports "not in use" for every port it is asked about.
C18_NoStrategyReportsFree ==
  (check_cmd = "None" /\ pc \in {"batch", "sound", "menu"}) =>
    \A p \in {LOCAL_PORT_START, local_port, SOUND_PORT} : Probe(procs, p) = "free"

\* the first field of a line that is not a comment is 'Usage'
HasUsageLine(d) ==
  \E i \in 1..Len(d) :
    /\ d[i] # <<>> /\ d[i][1] # "#"
    /\ SubSeq(d[i], 1, 5) = <<"U", "s", "a", "g", "e">>
    /\ (Len(d[i]) = 5 \/ d[i][6] \in {" ", "-"})

\* C19: discovery on an output with a Usage line ends in a fatal error: control
\* goes neither to the batch with a session list nor to the exit taken for an
\* empty result, and no session is stored.
C19_UsageIsFatal ==
  [][(pc = "discover" /\ pc' # "discover" /\ HasUsageLine(data')) =>
       (pc' = "fatal" /\ sessions_found' = <<>>)]_vars

\* the lines of d that do not start with #
NonComment(d) == SelectSeq(d, LAMBDA ln : ln = <<>> \/ ln[1] # "#")

\* every line of d is a comment or a session line "k - K k - x"
SessionLinesOnly(d) ==
  \A i \in 1..Len(NonComment(d)) :
    \E k \in 1..Len(DisplayStr) : NonComment(d)[i] = SessionLine(k)

\* C20: when the output consists of session lines and comment lines, the
\* sessions found are one per non-comment line, in the order of the lines, with
\* display the first field and desktop the second, both without the blanks
\* around them.
C20_OneSessionPerLine ==
  (pc \notin {"start", "validate", "discover"} /\ SessionLinesOnly(data)) =>
    /\ Len(sessions_found) = Len(NonComment(data))
    /\ \A i \in 1..Len(sessions_found) :
         \E k \in 1..Len(DisplayStr) :
           /\ NonComment(data)[i] = SessionLine(k)
           /\ sessions_found[i].display = DisplayStr[k]
           /\ sessions_found[i].desktop = "K " \o DisplayStr[k]

\* the output with a comment between two session lines was parsed
C20_Witness ==
  /\ pc = "batch"
  /\ data = <<SessionLine(1), CommentLine, SessionLine(2)>>
  /\ Len(sessions_found) = 2

\* C21: when discovery returns no session, start() calls exit_app at once; as
\* long as no session was found no ssh process was spawned, no tunnel is
\* registered, no viewer thread or process exists, the audio relay was not
\* started, and the main thread is not in the batch loop, at the audio step
\* or at the menu.
C21_NoSessionsStraightToTeardown ==
  /\ [](sessions_found = <<>> =>
          /\ procs = <<>> /\ ports_in_use = <<>> /\ returned = {}
          /\ vnc_threads = <<>> /\ viewers = <<>> /\ vnc_processes = <<>>
          /\ sound = 0 /\ sounds = <<>>
          /\ pc \notin {"batch", "sound", "menu"})
  /\ [][(pc = "discover" /\ pc' # "fatal" /\ sessions_found' = <<>>) =>
          (pc' = "exit_app" /\ ctx' = "start" /\ stage' = 0)]_vars

\* discovery read an output without session lines and the run ended through
\* the teardown
C21_Witness ==
  /\ pc = "ended"
  /\ data = <<UsageLine>>
  /\ sessions_found = <<>>
  /\ connection_valid
  /\ exit /\ td_runs = 1

\* C22: as long as self.connection_valid is not set, get_vnc_sessions has not
\* run and no ssh process was spawned, no tunnel registered, and the main
\* thread is not at discovery or beyond; and when validation leaves the flag
\* unset, start() calls exit_app.
C22_ValidationGatesEverything ==
  /\ [](~connection_valid =>
          /\ data = <<>> /\ sessions_found = <<>>
          /\ procs = <<>> /\ ports_in_use = <<>> /\ returned = {}
          /\ pc \notin {"discover", "batch", "sound", "menu"})
  /\ [][(pc = "validate" /\ ~connection_valid') =>
          (pc' = "exit_app" /\ ctx' = "start" /\ stage' = 0)]_vars

\* the configuration was read, validation failed, and the run ended through
\* the teardown without discovery and without a tunnel
C22_Witness ==
  /\ pc = "ended"
  /\ vncviewer = "vncviewer"
  /\ ~connection_valid
  /\ exit /\ td_runs = 1
  /\ data = <<>> /\ procs = <<>>

\* C23: a run in which q was typed at the menu, whatever the commands before
\* it, ends with the teardown run and self.exit set.
C23_QuitReachesDone ==
  (quit /\ pc = "ended") => (exit /\ td_runs >= 1)

\* C24: a step taken while prompt_menu runs leaves the main thread at the
\* prompt unless it is the step of the q command.
C24_OnlyQuitLeavesLoop ==
  [][(pc = "menu" /\ ~quit') => pc' = "menu"]_vars

\* the local ports open_ssh_tunnel returned for session name n
PortsOf(n) == {r[2] : r \in {x \in returned : x[1] = n}}

\* C25: a run that discovered two sessions and met no failure, with a viewer
\* and a port probe at hand, and in which q was typed, ends with: a tunnel for each session,
\* on local ports of its own; a viewer for each session on a port of its
\* tunnel; no ssh process and no viewer still running.
C25_EndToEndTwoSessions ==
  (/\ pc = "ended" /\ quit /\ faults = 0
   /\ Len(sessions_found) = 2 /\ vncviewer # "None" /\ check_cmd # "None") =>
    /\ \A i \in 1..2 : PortsOf(sessions_found[i].display) # {}
    /\ PortsOf(sessions_found[1].display) \cap PortsOf(sessions_found[2].display) = {}
    /\ \A i \in 1..2 : \E v \in 1..Len(viewers) :
         viewers[v].port \in PortsOf(sessions_found[i].display)
    /\ Running(procs) = {}
    /\ Running(viewers) = {}

\* C26: a run that ends without q having been typed (a configuration that
\* cannot be used, a missing key file, a failed validation, a failed
\* discovery, an exception) ends with an exit status other than 0.
C26_FatalExitNonZero ==
  (pc = "ended" /\ ~quit) => exit_status >= 1

\* C27: no two viewer processes that are running were started for the same
\* local port.
C27_OneViewerPerPort ==
  \A v, w \in Running(viewers) : v # w => viewers[v].port # viewers[w].port

\* a step of kill_vnc_processes in which terminate(), if called, returns: a
\* viewer is popped, or the while loop is over
KillVncStep ==
  /\ AtStage("vnc") /\ faults' = faults
  /\ Len(vnc_processes') < Len(vnc_processes) \/ stage' # stage

SessionTunnels(rs) == {r \in rs : r[1] # SOUNDPLAY}

C30_ViewerAddress ==
  \A v \in 1..Len(viewers) :
    LET p == viewers[v].port
        a == viewers[v].addr
    IN p # 0 =>
         /\ vncviewer = "open" => a = vncprefix \o "localhost" \o ":" \o Decimal(p)
         /\ vncviewer # "open" => a = vncprefix \o "localhost" \o "::" \o Decimal(p)
         /\ (p = LOCAL_PORT_START /\ vncviewer = "open") =>
              a = vncprefix \o "localhost:5901"
         /\ (p = LOCAL_PORT_START /\ vncviewer # "open" /\ vncprefix = "") =>
              a = "localhost::5901"

\* a viewer was started through "open" for the tunnel on port 5901
C30_Witness ==
  /\ vncviewer = "open"
  /\ \E v \in 1..Len(viewers) :
       viewers[v].port = LOCAL_PORT_START /\ viewers[v].addr = "vnc://localhost:5901"

\* a step in which open_ssh_tunnel spawned an ssh process
SpawnStep == Len(procs') = Len(procs) + 1

\* C31: a call of open_ssh_tunnel that spawned ssh ends, and it registers the
\* tunnel and returns the local port exactly when ssh was still running at
\* the poll and one of the (at most 50) probes found the port active, that
\* is when the port was already active or ssh bound it by the last probe;
\* otherwise it fails: nothing is returned and the table is not changed.
C31_RegisteredIffProbeActive ==
  [][SpawnStep =>
       LET id     == Len(procs')
           p      == procs'[id]
           active == /\ p.state = "running" /\ check_cmd # "None"
                     /\ (p.listening \/ IsLocalPortInUse(procs, p.port))
           reg    == /\ p.port \in Keys(ports_in_use')
                     /\ Entry(ports_in_use', p.port).proc = id
                     /\ <<p.name, p.port>> \in returned'
       IN /\ p.result \in {"registered", "timeout", "exited", "probe_error"}
          /\ active <=> reg
          /\ active <=> p.result = "registered"
          /\ ~active => (ports_in_use' = ports_in_use /\ returned' = returned)]_vars

\* one call timed out and another registered its tunnel after ssh bound the port
C31_Witness ==
  \E i, j \in 1..Len(procs) :
    /\ procs[i].result = "timeout" /\ ~procs[i].listening
    /\ procs[j].result = "registered" /\ procs[j].listening
    /\ procs[j].port \in Keys(ports_in_use)

\* a step in which a call of open_ssh_tunnel failed: the ssh it spawned had
\* exited at the poll or its port never became active (or the probe raised),
\* or no port was found and the cursor was reset without a spawn
FailedOpenStep ==
  \/ SpawnStep /\ procs'[Len(procs')].result # "registered"
  \/ /\ procs' = procs /\ pc \in {"batch", "menu"}
     /\ local_port' # local_port /\ local_port' = LOCAL_PORT_START

\* C32: a call of open_ssh_tunnel that fails leaves ports_in_use as it was.
C32_FailedOpenLeavesTable ==
  [][FailedOpenStep => ports_in_use' = ports_in_use]_vars

\* a call failed while another tunnel was registered, and the table holds
\* that tunnel only
C32_Witness ==
  /\ Len(ports_in_use) = 1
  /\ \E i \in 1..Len(procs) :
       /\ procs[i].result \in {"exited", "timeout"}
       /\ i > ports_in_use[1].proc
       /\ procs[i].port \notin Keys(ports_in_use)

\* a step of a launch thread: a thread that exists moves on
ThreadStep ==
  \E t \in 1..Len(vnc_threads) :
    t <= Len(vnc_threads') /\ vnc_threads'[t] # vnc_threads[t]

C34_PreferredPortAsGiven ==
  [][(SpawnStep /\ procs'[Len(procs')].name = SOUNDPLAY) =>
       /\ procs'[Len(procs')].port = SOUND_PORT
       /\ local_port' = local_port]_vars

\* the audio tunnel is registered on 9798 and the cursor stands right after
\* the one session tunnel
C34_Witness ==
  /\ local_port = LOCAL_PORT_START + 1
  /\ \E i \in 1..Len(ports_in_use) :
       /\ ports_in_use[i].name = SOUNDPLAY
       /\ ports_in_use[i].port = SOUND_PORT
       /\ procs[ports_in_use[i].proc].port = SOUND_PORT

\* a step in which the Popen of a launch thread raises
LaunchFails ==
  \E t \in 1..Len(vnc_threads) :
    /\ t <= Len(vnc_threads')
    /\ vnc_threads[t].st # "failed" /\ vnc_threads'[t].st = "failed"

\* C35: when the launch of a viewer fails in its thread, the main thread stays
\* where it is, the table of tunnels and the ssh processes are untouched, no
\* viewer is tracked for it; and at the menu the main thread is not held by
\* a thread that failed or is still running: the next command can be typed.
C35_LaunchFailureIsolated ==
  /\ [][LaunchFails =>
          /\ pc' = pc /\ cmds' = cmds
          /\ ports_in_use' = ports_in_use /\ procs' = procs
          /\ viewers' = viewers /\ vnc_processes' = vnc_processes]_vars
  /\ [](pc = "menu" => ENABLED CmdQuit)

\* at the menu after a launch failed, with the tunnel of that session
\* registered and its ssh running
C35_Witness ==
  /\ pc = "menu"
  /\ \E t \in 1..Len(vnc_threads) :
       /\ vnc_threads[t].st = "failed"
       /\ vnc_threads[t].port \in Keys(ports_in_use)
       /\ procs[Entry(ports_in_use, vnc_threads[t].port).proc].state = "running"

\* the override: the configured value when there is one, else the one of
\* the command line
Override == IF config_check_cmd # "None" THEN config_check_cmd ELSE args_check

BelowCursor(rs, c) == \A o \in SessionTunnels(rs) : o[2] < c

\* C37: once the configuration is read, the cursor goes down only in an
\* allocation that finds its 100 ports occupied, and then to 5901; a port
\* handed out for a session is at or above the cursor; and a step that does
\* not take the cursor down keeps every port handed out so far below it, so
\* that none of them, closed or not, is handed out again.
C37_CursorOnlyIncreases ==
  [][pc # "start" =>
       /\ local_port' < local_port =>
            /\ FirstFree(local_port, PortTries).port = 0
            /\ local_port' = LOCAL_PORT_START
       /\ \A r \in SessionTunnels(returned') \ SessionTunnels(returned) :
            r[2] >= local_port /\ r[2] < local_port'
       /\ (local_port' >= local_port /\ BelowCursor(returned, local_port)) =>
            BelowCursor(returned', local_port')]_vars

\* the cursor, configured to start at 9798, stands at 5901 after an
\* allocation found no port; the first session had been given 9798
C37_Witness ==
  /\ local_port = LOCAL_PORT_START
  /\ \E o \in SessionTunnels(returned) : o[2] = SOUND_PORT
  /\ ext \in {"high", "all"}

\* a step of the menu in which port p leaves the table
ClosedAtMenu(p) ==
  /\ pc = "menu"
  /\ p \in Keys(ports_in_use)
  /\ p \notin Keys(ports_in_use')

\* C38: a menu step that closes port p leaves the other entries of the table
\* as they were and in their order, leaves every ssh process but the one of p
\* as it was, and leaves the cursor, the launch threads, the viewer processes
\* and the audio player unchanged.
C38_CloseChangesOnlyItsEntry ==
  [][\A p \in Keys(ports_in_use) : ClosedAtMenu(p) =>
       /\ ports_in_use' = SelectSeq(ports_in_use, LAMBDA e : e.port # p)
       /\ Len(procs') = Len(procs)
       /\ \A i \in 1..Len(procs) :
            i # Entry(ports_in_use, p).proc => procs'[i] = procs[i]
       /\ UNCHANGED <<local_port, vnc_threads, viewers, vnc_processes,
                      sound, sounds>>]_vars

\* at the menu a viewer runs on a port that has left the table, the ssh
\* process of that port was killed, and another tunnel is still registered
C38_Witness ==
  /\ pc = "menu"
  /\ ports_in_use # <<>>
  /\ \E v \in 1..Len(viewers) :
       /\ viewers[v].state = "running" /\ viewers[v].terms = 0
       /\ viewers[v].port \notin Keys(ports_in_use)
       /\ \E i \in 1..Len(procs) :
            procs[i].port = viewers[v].port /\ procs[i].state = "killed"

\* the audio players that are live
LivePlayers == {i \in 1..Len(sounds) : sounds[i].live}

\* a step in which start_soundplay ran: the step after the batch with sound
\* wanted, or a menu step that opened the audio tunnel or touched the players
SoundplayStep ==
  \/ pc = "sound" /\ pc' # "sound" /\ ~nosound
  \/ /\ pc = "menu"
     /\ \/ sounds' # sounds
        \/ \E i \in (Len(procs) + 1)..Len(procs') : procs'[i].name = SOUNDPLAY

\* C39: at most one audio player is live, and it is the one self.sound
\* refers to; a step in which start_soundplay runs leaves every player that
\* existed before it not live, and ends at the menu, whatever failed in it.
C39_OneLivePlayer ==
  /\ [](Cardinality(LivePlayers) <= 1 /\ LivePlayers \subseteq {sound})
  /\ [][SoundplayStep =>
          /\ pc' = "menu"
          /\ \A i \in 1..Len(sounds) : ~sounds'[i].live]_vars

\* three players were made: the first was terminated by a restart whose
\* connect failed, the second by the next restart, the third is live
C39_Witness ==
  /\ pc = "menu"
  /\ Len(sounds) = 3 /\ sound = 3
  /\ sounds[1].terms = 1 /\ ~sounds[1].live
  /\ sounds[2].terms = 1 /\ ~sounds[2].live
  /\ sounds[3].live
  /\ faults = 1

====
